---- MODULE Spec2Model ----
(***************************************************************************)
(* Lecture processing pipeline (lecture/tasks.py): one Lecture row, the    *)
(* Celery tasks process_lecture_task, calculate_etr_task and               *)
(* start_process_from_url_task that work on it, the four stage workers     *)
(* run in two thread-pool tiers, and the stuck-task sweep                  *)
(* check_and_mark_stuck_tasks.  Every database statement is one step, so   *)
(* every interleaving of the tasks' reads and writes of the row is a       *)
(* behaviour of the model.                                                 *)
(* A second specification, SpecSweep, runs one sweep over a table of       *)
(* several lectures while their pipelines end.  A third, SpecStats, runs   *)
(* the pipeline and the estimator of one uploaded lecture over every audio *)
(* duration, page count and statistics row within the bounds.  A fourth,   *)
(* SpecEmbed, calls embed_and_store (lecture/services.py) several times    *)
(* for one lecture against the vector store.  SpecPdf runs process_pdf     *)
(* over PDFs of every page count and batch size within the bounds,         *)
(* SpecParallel runs it inside the PDF worker of the pipeline, and SpecMap *)
(* calls create_semantic_mappings for every summary list and collection    *)
(* within the bounds.                                                      *)
(***************************************************************************)
EXTENDS Integers, FiniteSets, Sequences, TLC

\* ---------------------------------------------------------------- bounds
\* pages a readable PDF can have: 1..MaxPages
MaxPages == 1
\* mappings create_semantic_mappings can return: 0..MaxMappings
MaxMappings == 1
\* runs of check_and_mark_stuck_tasks (worker start, operator command)
MaxSweeps == 1
\* rows of the Lecture table one sweep runs over: ids 1..NLectures
NLectures == 3
MaxMinutes == 2
MaxRuns == 2
MaxDocs == 201
MaxPdfPages == 3
MaxBatchSize == 2
MaxTopics == 2

\* ---------------------------------------------------------------- state
VARIABLES
    db,        \* the Lecture row as persisted
    chunks,    \* number of PdfChunk rows of the lecture
    mappings,  \* number of Mapping rows of the lecture
    old,       \* created_at < now - threshold
    opc,       \* process_lecture_task: position
    ost,       \* process_lecture_task: local dict step_times
    res,       \* process_lecture_task: stt_result, pdf_result, summary_result, embedding_result
    olec,      \* process_lecture_task: the instance read at line 411
    omap,      \* process_lecture_task: len(mappings_to_create), -1 before Map returns
    oerr,      \* process_lecture_task: the exception it raised (str(e) at line 483)
    wk,        \* the futures of the four stage workers
    epc,       \* calculate_etr_task: position
    elec,      \* calculate_etr_task: the instance it holds
    upc,       \* start_process_from_url_task: position
    ulec,      \* start_process_from_url_task: the instance read at line 577
    rpc,       \* check_and_mark_stuck_tasks: position
    rdry,      \* check_and_mark_stuck_tasks: dry_run
    rcount,    \* check_and_mark_stuck_tasks: count
    rupdated,  \* check_and_mark_stuck_tasks: updated_count
    rsnap,     \* check_and_mark_stuck_tasks: instances fetched by the loop's query
    sweeps,    \* sweeps started so far
    lectures,  \* table sweep: the Lecture table, id -> row
    aged,      \* table sweep: ids with created_at < cutoff_time
    spc,       \* table sweep: position
    sdry,      \* table sweep: dry_run
    scount,    \* table sweep: count
    supdated,  \* table sweep: updated_count
    sfetched,  \* table sweep: instances fetched by the loop's query, not yet visited
    stats,     \* the ProcessingStats row (pk 0: not created yet); averages in milliseconds
    audio_min, \* minutes get_audio_duration_fast reads from the audio file (0: unreadable)
    pdf_pages, \* pages get_pdf_page_count reads from the PDF file (0: cannot be opened)
    speech,    \* the audio holds speech (else the transcription model returns "" for it)
    eest,      \* calculate_etr_task: estimated_time_sec computed by the try body
    coll,      \* the vector store's collection lecture_<id>: exists, run that added each document
    xpc,       \* embed_and_store: position
    xrun,      \* embed_and_store: number of the current call
    xdocs,     \* embed_and_store: ids of the documents of the current call
    xbatch,    \* embed_and_store: index i of the next batch
    xfailed,   \* embed_and_store: indexes of the batches of the current call that raised
    ppc,       \* process_pdf: position
    pbatch,    \* process_pdf: settings.OLLAMA_BATCH_SIZE
    pstart,    \* process_pdf: batch_start of the next batch
    pfly,      \* process_pdf: page tasks of the current batch that have not finished
    ptexts,    \* process_pdf: pdf_texts
    presult,   \* _pdf_worker: the dict returned
    mpc,       \* create_semantic_mappings: position
    summary_json,  \* create_semantic_mappings: the summary: parses or not, its summary_list
    vectors,   \* create_semantic_mappings: the collection lecture_<id> as queried: exists, metadata of its vectors
    mitem,     \* create_semantic_mappings: position of the loop in summary_list
    mappings_to_create  \* create_semantic_mappings: the list returned

vars == <<db, chunks, mappings, old, opc, ost, res, olec, omap, oerr, wk,
          epc, elec, upc, ulec, rpc, rdry, rcount, rupdated, rsnap, sweeps,
          lectures, aged, spc, sdry, scount, supdated, sfetched,
          stats, audio_min, pdf_pages, speech, eest, coll, xpc, xrun, xdocs, xbatch, xfailed,
          ppc, pbatch, pstart, pfly, ptexts, presult,
          mpc, summary_json, vectors, mitem, mappings_to_create>>

orchVars == <<opc, ost, res, olec, omap, oerr, wk>>
etrVars == <<epc, elec, eest>>
urlVars == <<upc, ulec>>
reaperVars == <<rpc, rdry, rcount, rupdated, rsnap, sweeps>>
tableVars == <<chunks, mappings>>
sweepVars == <<lectures, aged, spc, sdry, scount, supdated, sfetched>>
statsVars == <<stats, audio_min, pdf_pages, speech>>
embedVars == <<coll, xpc, xrun, xdocs, xbatch, xfailed>>
pdfVars == <<ppc, pbatch, pstart, pfly, ptexts, presult>>
lectureVars == <<db, tableVars, old, orchVars, etrVars, urlVars, reaperVars, statsVars>>
mapVars == <<mpc, summary_json, vectors, mitem, mappings_to_create>>
pipelineVars == <<lectureVars, embedVars, pdfVars, mapVars>>

\* ---------------------------------------------------------------- Lecture
Tier1 == {"stt", "pdf"}
Tier2 == {"summary", "embedding"}
Workers == Tier1 \cup Tier2

\* step_times is a JSON object: a function from a set of keys to seconds
EmptyDict == [k \in {} |-> 0]

\* Lecture.objects.create(...) in upload_view: the column defaults
NewLecture(audio) ==
    [status |-> "processing", current_step |-> 0, step_times |-> EmptyDict,
     full_script |-> "null", summary_json |-> "null",
     estimated_time_sec |-> 0, audio_file |-> audio]

\* no instance held
NoLecture == [NewLecture(FALSE) EXCEPT !.status = "none"]

\* dict assignment d[k] = v
DictSet(d, k, v) == (k :> v) @@ d

\* ---------------------------------------------------------------- workers
\* an exception message: what it reports (kind) and about which stage (of)
Message(kind, of) == [kind |-> kind, of |-> of]

\* no exception raised
NoError == Message("none", "none")

\* lines 84-89, 114-119, 143-148, 169-174: str(e) of the exception worker w caught
WorkerError(w) == Message("worker_reason", w)

\* `text` is the transcript a dict carries: "null" for none, "" for an empty
\* string
NoResult ==
    [worker |-> "none", success |-> FALSE, keys |-> {}, elapsed_sec |-> 0, page_count |-> 0,
     text |-> "null", error |-> NoError]

\* the dict a worker returns from its except branch
FailureResult(w) ==
    [worker |-> w, success |-> FALSE, keys |-> {"success", "error"},
     elapsed_sec |-> 0, page_count |-> 0, text |-> "null", error |-> WorkerError(w)]

\* the keys of the dict each worker returns on success
SuccessKeys(w) ==
    CASE w = "stt" -> {"success", "full_script_ts", "script_text_only", "elapsed_sec"}
      [] w = "pdf" -> {"success", "pdf_texts", "page_count", "elapsed_sec"}
      [] w = "summary" -> {"success", "summary_json", "elapsed_sec"}
      [] OTHER -> {"success", "elapsed_sec"}

\* time.time() - start of each stage: one positive value per stage, all
\* different, so that an entry of step_times tells which stage wrote it
ElapsedSec ==
    [stt |-> 11, pdf |-> 12, summary |-> 13, embedding |-> 14, map |-> 15, save |-> 16]

SuccessResult(w, n) ==
    [worker |-> w, success |-> TRUE, keys |-> SuccessKeys(w),
     elapsed_sec |-> ElapsedSec[w], page_count |-> IF w = "pdf" THEN n ELSE 0,
     text |-> IF w = "stt" THEN "script" ELSE "null", error |-> NoError]

\* services.py lines 124-142: the text process_audio returns for the audio:
\* response.text as it is, "" when the model wrote nothing
Transcript == IF speech THEN "script" ELSE ""

\* what the external call of worker w can do: return a value, return an
\* empty value, return None, raise.  process_audio (services.py 101-149)
\* returns the model's text or (None, None); process_pdf (253-318) a list of
\* pages, which can be []; get_summary_from_gemini (321-367) a JSON string or
\* None; embed_and_store (369-425) nothing
Outcomes(w) ==
    CASE w = "stt" -> {"value", "null", "raise"}
      [] w = "pdf" -> {"value", "empty", "raise"}
      [] w = "summary" -> {"value", "null", "raise"}
      [] OTHER -> {"value", "raise"}

\* an exception on its way out of a worker's try body: no dict
Raised(w) == [FailureResult(w) EXCEPT !.keys = {}]

\* lines 64-83, 93-113, 123-142, 152-168: the try body of worker w for an
\* outcome of its call: _stt_worker raises when a transcript `is None`,
\* _pdf_worker when `not pdf_texts`, _summary_worker when the summary `is None`
WorkerBody(w, outcome, n) ==
    CASE outcome = "raise" -> Raised(w)
      [] outcome = "null" -> Raised(w)
      [] outcome = "empty" -> Raised(w)
      [] w = "stt" -> [SuccessResult(w, n) EXCEPT !.text = Transcript]
      [] OTHER -> SuccessResult(w, n)

\* variant of WorkerExcept: the worker has no except clause
WorkerExcept_Reraise(w, e) == e

\* lines 84-89, 114-119, 143-148, 169-174: `except Exception as e` returns
\* the Failure dict
WorkerExcept(w, e) == FailureResult(w)

\* a worker's call: the try body, or the except clause when the body raised
WorkerResult(w, outcome, n) ==
    IF WorkerBody(w, outcome, n).keys = {}
    THEN WorkerExcept(w, WorkerBody(w, outcome, n))
    ELSE WorkerBody(w, outcome, n)

\* everything a call of worker w can end with
WorkerResults(w) ==
    {WorkerResult(w, outcome, n) : outcome \in Outcomes(w), n \in 1..MaxPages}

\* variant of UploadEnqueues: upload_view starts the pipeline for a URL too
UploadEnqueues_Always(url) == "queued"

\* views.py lines 259-262 and 275: upload_view enqueues process_lecture_task
\* and calculate_etr_task for an uploaded file, only
\* start_process_from_url_task for a URL
UploadEnqueues(url) == IF url THEN "idle" ELSE "queued"

\* upload_view has created one lecture and enqueued its tasks (url: by YouTube
\* URL, else by file upload)
PipelineInit(url) ==
    /\ db = NewLecture(~url)
    /\ opc = UploadEnqueues(url)
    /\ epc = UploadEnqueues(url)
    /\ upc = IF url THEN "queued" ELSE "idle"
    /\ chunks = 0
    /\ mappings = 0
    /\ old = FALSE
    /\ ost = EmptyDict
    /\ res = [s \in Workers |-> NoResult]
    /\ olec = NoLecture
    /\ omap = -1
    /\ oerr = NoError
    /\ wk = [w \in Workers |-> [state |-> "idle", result |-> NoResult]]
    /\ elec = NoLecture
    /\ eest = 0
    /\ ulec = NoLecture
    /\ rpc = "idle"
    /\ rdry = FALSE
    /\ rcount = 0
    /\ rupdated = 0
    /\ rsnap = NoLecture
    /\ sweeps = 0

\* the table sweep's locals before it is called
SweepLocalsInit ==
    /\ sdry = FALSE
    /\ scount = 0
    /\ supdated = 0
    /\ sfetched = <<>>

\* models.py lines 151-166: the averages a new ProcessingStats row holds
\* (2.0, 1.6, 0.07 and 1.0 seconds, written in milliseconds)
DefaultStats ==
    [pk |-> 1, audio_stt_avg_sec_per_min |-> 2000, pdf_parsing_avg_sec_per_page |-> 1600,
     embedding_avg_sec_per_page |-> 70, summary_avg_sec_per_min |-> 1000]

\* the table before its first access: no row with pk 1
NoStats == [DefaultStats EXCEPT !.pk = 0]

\* init_processing_stats.py: the row after the management command
\* (STT 1.8, summary 1.8, embedding 0.08 and parsing 1.25 seconds)
CommandStats ==
    [pk |-> 1, audio_stt_avg_sec_per_min |-> 1800, pdf_parsing_avg_sec_per_page |-> 1250,
     embedding_avg_sec_per_page |-> 80, summary_avg_sec_per_min |-> 1800]

\* variant of get_or_create_singleton: the row is put back to the defaults
get_or_create_singleton_Reset(row) == DefaultStats

\* models.py lines 176-188: get_or_create(pk=1); a missing row is created with
\* the defaults, an existing one is returned as it is
get_or_create_singleton(row) == IF row.pk = 0 THEN DefaultStats ELSE row

\* the uploaded files of the one lecture: a one-minute audio with speech, a
\* one-page PDF; no statistics row yet
FilesInit ==
    /\ stats = NoStats
    /\ audio_min = 1
    /\ pdf_pages = 1
    /\ speech = TRUE

\* the ids embed_and_store can give a document (pdf_<id>_<page>,
\* script_<id>_<line>)
DocIds == 1..MaxDocs

\* the vector store before the first embed_and_store: no collection
NoCollection == [exists |-> FALSE, docs |-> [d \in DocIds |-> 0]]

\* process_pdf before it is called (position `at`), for a batch size
PdfInit(at, size) ==
    /\ ppc = at
    /\ pbatch = size
    /\ pstart = 0
    /\ pfly = {}
    /\ ptexts = <<>>
    /\ presult = NoResult

\* create_semantic_mappings not called
MapInit ==
    /\ mpc = "off"
    /\ summary_json = [valid |-> TRUE, summary_list |-> <<>>]
    /\ vectors = [exists |-> FALSE, metadatas |-> {}]
    /\ mitem = 1
    /\ mappings_to_create = <<>>

\* embed_and_store before it is called (position `at`)
EmbedInit(at) ==
    /\ coll = NoCollection
    /\ xpc = at
    /\ xrun = 0
    /\ xdocs = {}
    /\ xbatch = 0
    /\ xfailed = {}

Init ==
    /\ \E url \in BOOLEAN : PipelineInit(url)
    /\ FilesInit
    /\ EmbedInit("off")
    /\ PdfInit("off", 1)
    /\ MapInit
    /\ lectures = <<>>
    /\ aged = {}
    /\ spc = "off"
    /\ SweepLocalsInit

\* time passes: the lecture becomes older than the sweep's threshold
Tick ==
    /\ ~old
    /\ old' = TRUE
    /\ UNCHANGED <<db, tableVars, orchVars, etrVars, urlVars, reaperVars, sweepVars, statsVars, embedVars, pdfVars, mapVars>>

\* ---------------------------------------------------------------- failure marking
\* variant of mark_lecture_as_failed: the status is written without the check
mark_lecture_as_failed_Unconditional(lecture) == [lecture EXCEPT !.status = "failed"]

\* mark_lecture_as_failed: one transaction holding the row lock; the row it
\* leaves behind, given the row it read
mark_lecture_as_failed(lecture) ==
    IF lecture.status = "processing"
    THEN [lecture EXCEPT !.status = "failed"]
    ELSE lecture

\* ---------------------------------------------------------------- process_lecture_task
\* variant of AudioCheck: the task goes on without looking at the audio file
AudioCheck_Skipped(lecture) == "step1"

\* lines 257-258: `if not lecture.audio_file: raise`; where the task goes next
AudioCheck(lecture) == IF lecture.audio_file THEN "step1" ELSE "except"

\* lines 249-272: read the lecture, check the audio file
process_lecture_task_start ==
    /\ opc = "queued"
    /\ opc' = AudioCheck(db)
    /\ oerr' = IF db.audio_file THEN NoError ELSE Message("no_audio", "none")
    /\ ost' = EmptyDict
    /\ UNCHANGED <<db, tableVars, old, res, olec, omap, wk, etrVars, urlVars, reaperVars, sweepVars, statsVars, embedVars, pdfVars, mapVars>>

\* variant of Submit: one pool runs all four stages at once
Submit_AllStages(tier) ==
    [w \in Workers |-> [state |-> "running", result |-> NoResult]]

\* executor.submit of both workers of a tier
Submit(tier) ==
    [w \in Workers |-> IF w \in tier THEN [state |-> "running", result |-> NoResult] ELSE wk[w]]

\* lines 280-289: current_step=1, Tier 1 submitted
process_lecture_task_tier1 ==
    /\ opc = "step1"
    /\ db' = [db EXCEPT !.current_step = 1]
    /\ wk' = Submit(Tier1)
    /\ opc' = "tier1"
    /\ UNCHANGED <<tableVars, old, ost, res, olec, omap, etrVars, urlVars, reaperVars, oerr, sweepVars, statsVars, embedVars, pdfVars, mapVars>>

\* a stage worker ends, for some outcome of its external call
WorkerReturn(w) ==
    /\ wk[w].state = "running"
    /\ \E r \in WorkerResults(w) : wk' = [wk EXCEPT ![w] = [state |-> "done", result |-> r]]
    /\ UNCHANGED <<db, tableVars, old, opc, ost, res, olec, omap, etrVars, urlVars, reaperVars, oerr, sweepVars, statsVars, embedVars, pdfVars, mapVars>>

stt_worker == WorkerReturn("stt")
pdf_worker == WorkerReturn("pdf")
summary_worker == WorkerReturn("summary")
embedding_worker == WorkerReturn("embedding")

\* as_completed yields a finished future that the loop has not yet taken
Yielded(tier, w) == w \in tier /\ wk[w].state = "done"

\* the loop over as_completed has taken every future of the tier
AllCollected(tier) == \A w \in tier : wk[w].state = "collected"

\* variant of PoolJoined: the executor is shut down with wait=False
PoolJoined_NoWait(tier) == tier \subseteq Workers

\* leaving the with block joins the pool: no worker of the tier is running
PoolJoined(tier) == \A w \in tier : wk[w].state # "running"

\* lines 295-304: which variable and which step_times key a Tier 1 result goes to
Tier1Slot(result) ==
    IF "full_script_ts" \in result.keys THEN "stt"
    ELSE IF "pdf_texts" \in result.keys THEN "pdf"
    ELSE "none"

\* lines 352-362: which variable a Tier 2 result goes to
Tier2Slot(result) ==
    IF "summary_json" \in result.keys THEN "summary" ELSE "embedding"

\* variant of StepKey: the PDF worker's time is written under Tier 2's key
StepKey_PdfUnderTier2(slot) ==
    CASE slot = "stt" -> "1"
      [] slot = "pdf" -> "4"
      [] slot = "summary" -> "3"
      [] OTHER -> "4"

\* the step_times key of each result variable
StepKey(slot) ==
    CASE slot = "stt" -> "1"
      [] slot = "pdf" -> "2"
      [] slot = "summary" -> "3"
      [] OTHER -> "4"

\* variant of PersistStepTimes: the dict is kept in memory until the final save
PersistStepTimes_Deferred(lecture, times) == lecture

\* lines 298, 303, 355, 361, 400: update(step_times=step_times) on the row
PersistStepTimes(lecture, times) == [lecture EXCEPT !.step_times = times]

\* lines 292-304: one iteration of the Tier 1 loop
process_lecture_task_collect1 ==
    /\ opc = "tier1"
    /\ \E w \in Workers :
        /\ Yielded(Tier1, w)
        /\ LET result == wk[w].result
               slot == Tier1Slot(result)
           IN  /\ wk' = [wk EXCEPT ![w].state = "collected"]
               /\ IF slot = "none"
                  THEN UNCHANGED <<res, ost, db>>
                  ELSE /\ res' = [res EXCEPT ![slot] = result]
                       /\ ost' = DictSet(ost, StepKey(slot), result.elapsed_sec)
                       /\ db' = PersistStepTimes(db, ost')
    /\ UNCHANGED <<tableVars, old, opc, olec, omap, etrVars, urlVars, reaperVars, oerr, sweepVars, statsVars, embedVars, pdfVars, mapVars>>

\* lines 298/303, 305-307: the update raises inside the loop
process_lecture_task_collect1_raise ==
    /\ opc = "tier1"
    /\ \E w \in Workers :
        /\ Yielded(Tier1, w)
        /\ LET result == wk[w].result
               slot == Tier1Slot(result)
           IN  /\ slot # "none"
               /\ wk' = [wk EXCEPT ![w].state = "collected"]
               /\ res' = [res EXCEPT ![slot] = result]
               /\ ost' = DictSet(ost, StepKey(slot), result.elapsed_sec)
    /\ opc' = "tier1_raise"
    /\ oerr' = Message("db_error", "none")
    /\ UNCHANGED <<db, tableVars, old, olec, omap, etrVars, urlVars, reaperVars, sweepVars, statsVars, embedVars, pdfVars, mapVars>>

\* an exception leaves a with block: the executor is shut down with wait=True
process_lecture_task_pool_exit_raise ==
    /\ \/ opc = "tier1_raise" /\ PoolJoined(Tier1)
       \/ opc = "tier2_raise" /\ PoolJoined(Tier2)
    /\ opc' = "except"
    /\ UNCHANGED <<db, tableVars, old, ost, res, olec, omap, wk, etrVars, urlVars, reaperVars, oerr, sweepVars, statsVars, embedVars, pdfVars, mapVars>>

\* variant of Validated: one successful result is enough
Validated_Either(a, b) == res[a].success \/ res[b].success

\* lines 313-319, 371-377: `not r or not r.get('success')` is false for both
Validated(a, b) == res[a].success /\ res[b].success

\* lines 314, 318, 372, 376: error_msg of the result variable that fails the
\* check: the dict's 'error', or the "no result" text when the variable is None
ErrorMsg(slot) ==
    IF res[slot] = NoResult THEN Message("no_result", slot) ELSE res[slot].error

\* lines 313-319, 371-377: the exception the validation raises; the first
\* variable is checked first
ValidationError(a, b) == IF ~res[a].success THEN ErrorMsg(a) ELSE ErrorMsg(b)

\* lines 309-345: Tier 1 left, results validated, current_step=3, Tier 2 submitted
process_lecture_task_tier2 ==
    /\ opc = "tier1"
    /\ AllCollected(Tier1)
    /\ IF Validated("stt", "pdf")
       THEN /\ db' = [db EXCEPT !.current_step = 3]
            /\ wk' = Submit(Tier2)
            /\ opc' = "tier2"
            /\ UNCHANGED oerr
       ELSE /\ opc' = "except"
            /\ oerr' = ValidationError("stt", "pdf")
            /\ UNCHANGED <<db, wk>>
    /\ UNCHANGED <<tableVars, old, ost, res, olec, omap, etrVars, urlVars, reaperVars, sweepVars, statsVars, embedVars, pdfVars, mapVars>>

\* lines 348-362: one iteration of the Tier 2 loop; result['elapsed_sec'] of a
\* dict without that key raises KeyError after the result variable is assigned
process_lecture_task_collect2 ==
    /\ opc = "tier2"
    /\ \E w \in Workers :
        /\ Yielded(Tier2, w)
        /\ LET result == wk[w].result
               slot == Tier2Slot(result)
           IN  /\ wk' = [wk EXCEPT ![w].state = "collected"]
               /\ res' = [res EXCEPT ![slot] = result]
               /\ IF "elapsed_sec" \in result.keys
                  THEN /\ ost' = DictSet(ost, StepKey(slot), result.elapsed_sec)
                       /\ db' = PersistStepTimes(db, ost')
                       /\ UNCHANGED <<opc, oerr>>
                  ELSE /\ opc' = "tier2_raise"
                       /\ oerr' = Message("KeyError", "elapsed_sec")
                       /\ UNCHANGED <<ost, db>>
    /\ UNCHANGED <<tableVars, old, olec, omap, etrVars, urlVars, reaperVars, sweepVars, statsVars, embedVars, pdfVars, mapVars>>

\* lines 367-394: Tier 2 left, results validated, current_step=5, Map called
process_lecture_task_map ==
    /\ opc = "tier2"
    /\ AllCollected(Tier2)
    /\ IF Validated("summary", "embedding")
       THEN /\ db' = [db EXCEPT !.current_step = 5]
            /\ opc' = "map"
            /\ UNCHANGED oerr
       ELSE /\ opc' = "except"
            /\ oerr' = ValidationError("summary", "embedding")
            /\ UNCHANGED db
    /\ UNCHANGED <<tableVars, old, ost, res, olec, omap, wk, etrVars, urlVars, reaperVars, sweepVars, statsVars, embedVars, pdfVars, mapVars>>

\* lines 396-400: create_semantic_mappings returns, step_times['5'] written
process_lecture_task_map_return ==
    /\ opc = "map"
    /\ \E n \in 0..MaxMappings : omap' = n
    /\ ost' = DictSet(ost, "5", ElapsedSec.map)
    /\ db' = PersistStepTimes(db, ost')
    /\ opc' = "step6"
    /\ UNCHANGED <<tableVars, old, res, olec, wk, etrVars, urlVars, reaperVars, oerr, sweepVars, statsVars, embedVars, pdfVars, mapVars>>

\* line 396: create_semantic_mappings raises (summary JSON that is no object)
process_lecture_task_map_raise ==
    /\ opc = "map"
    /\ opc' = "except"
    /\ oerr' = Message("map_error", "none")
    /\ UNCHANGED <<db, tableVars, old, ost, res, olec, omap, wk, etrVars, urlVars, reaperVars, sweepVars, statsVars, embedVars, pdfVars, mapVars>>

\* line 408: current_step=6
process_lecture_task_step6 ==
    /\ opc = "step6"
    /\ db' = [db EXCEPT !.current_step = 6]
    /\ opc' = "get"
    /\ UNCHANGED <<tableVars, old, ost, res, olec, omap, wk, etrVars, urlVars, reaperVars, oerr, sweepVars, statsVars, embedVars, pdfVars, mapVars>>

\* line 411: the row is read again
process_lecture_task_get ==
    /\ opc = "get"
    /\ olec' = db
    /\ opc' = "save1"
    /\ UNCHANGED <<db, tableVars, old, ost, res, omap, wk, etrVars, urlVars, reaperVars, oerr, sweepVars, statsVars, embedVars, pdfVars, mapVars>>

\* lines 412-414: the instance as it is saved at line 415
CompletedLecture(lecture, full_script_ts) ==
    [lecture EXCEPT !.full_script = full_script_ts, !.summary_json = "summary",
                    !.status = "completed"]

\* lines 412-415: transcript, summary and status saved (every column written)
process_lecture_task_save ==
    /\ opc = "save1"
    /\ olec' = CompletedLecture(olec, res.stt.text)
    /\ db' = olec'
    /\ opc' = "chunks"
    /\ UNCHANGED <<tableVars, old, ost, res, omap, wk, etrVars, urlVars, reaperVars, oerr, sweepVars, statsVars, embedVars, pdfVars, mapVars>>

\* lines 418-419: one PdfChunk row created
process_lecture_task_chunk ==
    /\ opc = "chunks"
    /\ chunks < res["pdf"].page_count
    /\ chunks' = chunks + 1
    /\ UNCHANGED <<db, mappings, old, opc, ost, res, olec, omap, wk, etrVars, urlVars, reaperVars, oerr, sweepVars, statsVars, embedVars, pdfVars, mapVars>>

\* line 419: PdfChunk.objects.create raises
process_lecture_task_chunk_raise ==
    /\ opc = "chunks"
    /\ chunks < res["pdf"].page_count
    /\ opc' = "except"
    /\ oerr' = Message("db_error", "none")
    /\ UNCHANGED <<db, tableVars, old, ost, res, olec, omap, wk, etrVars, urlVars, reaperVars, sweepVars, statsVars, embedVars, pdfVars, mapVars>>

\* lines 422-424: Mapping rows bulk-created
process_lecture_task_bulk_create ==
    /\ opc = "chunks"
    /\ chunks = res["pdf"].page_count
    /\ mappings' = mappings + omap
    /\ opc' = "save2"
    /\ UNCHANGED <<db, chunks, old, ost, res, olec, omap, wk, etrVars, urlVars, reaperVars, oerr, sweepVars, statsVars, embedVars, pdfVars, mapVars>>

\* line 422: bulk_create raises
process_lecture_task_bulk_create_raise ==
    /\ opc = "chunks"
    /\ chunks = res["pdf"].page_count
    /\ omap > 0
    /\ opc' = "except"
    /\ oerr' = Message("db_error", "none")
    /\ UNCHANGED <<db, tableVars, old, ost, res, olec, omap, wk, etrVars, urlVars, reaperVars, sweepVars, statsVars, embedVars, pdfVars, mapVars>>

\* lines 426-429: step_times['6'] set on the instance, instance saved again
process_lecture_task_save_times ==
    /\ opc = "save2"
    /\ ost' = DictSet(ost, "6", ElapsedSec.save)
    /\ olec' = [olec EXCEPT !.step_times = ost']
    /\ db' = olec'
    /\ opc' = "stats"
    /\ UNCHANGED <<tableVars, old, res, omap, wk, etrVars, urlVars, reaperVars, oerr, sweepVars, statsVars, embedVars, pdfVars, mapVars>>

\* the float fields ProcessingStats declares (models.py)
ProcessingStatsFields ==
    {"audio_stt_avg_sec_per_min", "pdf_parsing_avg_sec_per_page",
     "embedding_avg_sec_per_page", "summary_avg_sec_per_min"}

\* lines 448-470: the attributes of the singleton the statistics block reads
StatsReads ==
    {"audio_stt_avg_sec_per_min", "pdf_parsing_avg_sec_per_page",
     "embedding_avg_sec_per_page", "pdf_processing_avg_sec_per_page", "summary_avg_sec"}

\* lines 442-472: the block raises (AttributeError on an attribute the model
\* does not declare) before it reaches stats.save()
StatsRaises == ~(StatsReads \subseteq ProcessingStatsFields)

\* variant of StatsExcept: the exception leaves the block and reaches line 481
StatsExcept_Propagates == "except"

\* lines 478-479: `except Exception as e: print(...)`; where the task goes next
StatsExcept == "done"

\* lines 448, 454, 460: `avg * 0.5 + new * 0.5`
Smooth(avg, new) == (avg + new) \div 2

\* lines 446, 452, 458: elapsed seconds per unit, in milliseconds
Observed(elapsed_sec, units) == (elapsed_sec * 1000) \div units

\* lines 445-472: the averages stats.save() would write: each declared average
\* is smoothed with this run's observation unless its divisor is 0
SmoothedStats(s, minutes, r) ==
    [s EXCEPT
       !.audio_stt_avg_sec_per_min =
           IF minutes > 0 THEN Smooth(@, Observed(r.stt.elapsed_sec, minutes)) ELSE @,
       !.pdf_parsing_avg_sec_per_page =
           IF r.pdf.page_count > 0
           THEN Smooth(@, Observed(r.pdf.elapsed_sec, r.pdf.page_count)) ELSE @,
       !.embedding_avg_sec_per_page =
           IF r.pdf.page_count > 0
           THEN Smooth(@, Observed(r.embedding.elapsed_sec, r.pdf.page_count)) ELSE @]

\* lines 440-479: the statistics block; line 442 creates the row if it is
\* missing, stats.save() (line 472) is reached only if nothing raised before
\* it, and whatever the block raises is swallowed
process_lecture_task_stats ==
    /\ opc = "stats"
    /\ stats' = IF StatsRaises
                THEN get_or_create_singleton(stats)
                ELSE SmoothedStats(get_or_create_singleton(stats), audio_min, res)
    /\ opc' = IF StatsRaises THEN StatsExcept ELSE "done"
    /\ UNCHANGED <<db, tableVars, old, ost, res, olec, omap, wk, etrVars, urlVars, reaperVars, oerr, sweepVars, audio_min, pdf_pages, speech, embedVars, pdfVars, mapVars>>

\* variant of AfterFailure: Celery puts the failed task back on the queue
AfterFailure_Retry == "queued"

\* lines 235 and 487: the exception leaves the task; with max_retries=0 and no
\* self.retry() Celery records the failure and does not run the task again
AfterFailure == "raised"

\* lines 481-487: mark_lecture_as_failed, then the exception is re-raised
process_lecture_task_except ==
    /\ opc = "except"
    /\ db' = mark_lecture_as_failed(db)
    /\ opc' = AfterFailure
    /\ UNCHANGED <<tableVars, old, ost, res, olec, omap, wk, etrVars, urlVars, reaperVars, oerr, sweepVars, statsVars, embedVars, pdfVars, mapVars>>

process_lecture_task ==
    \/ process_lecture_task_start
    \/ process_lecture_task_tier1
    \/ process_lecture_task_collect1
    \/ process_lecture_task_collect1_raise
    \/ process_lecture_task_pool_exit_raise
    \/ process_lecture_task_tier2
    \/ process_lecture_task_collect2
    \/ process_lecture_task_map
    \/ process_lecture_task_map_return
    \/ process_lecture_task_map_raise
    \/ process_lecture_task_step6
    \/ process_lecture_task_get
    \/ process_lecture_task_save
    \/ process_lecture_task_chunk
    \/ process_lecture_task_chunk_raise
    \/ process_lecture_task_bulk_create
    \/ process_lecture_task_bulk_create_raise
    \/ process_lecture_task_save_times
    \/ process_lecture_task_stats
    \/ process_lecture_task_except

\* ---------------------------------------------------------------- calculate_etr_task
\* lines 526-539: the attributes of the singleton the estimate reads
EtrReads ==
    {"audio_stt_avg_sec_per_min", "pdf_parsing_avg_sec_per_page", "summary_avg_sec",
     "embedding_avg_sec_per_page", "pdf_processing_avg_sec_per_page"}

Max(a, b) == IF a >= b THEN a ELSE b

\* the except branch is taken: the try body reads an attribute the model does
\* not declare (AttributeError, line 531)
EtrRaises == ~(EtrReads \subseteq ProcessingStatsFields)

\* lines 526-546: the estimate of the try body, from the audio minutes, the
\* page count and the averages (milliseconds); int() at line 549
Estimate(minutes, pages, s) ==
    LET audio_estimated == minutes * s.audio_stt_avg_sec_per_min
        pdf_parse_estimated == pages * s.pdf_parsing_avg_sec_per_page
        group1_estimated == Max(audio_estimated, pdf_parse_estimated)
        summary_estimated == s.summary_avg_sec
        embedding_estimated == pages * s.embedding_avg_sec_per_page
        group2_estimated == Max(summary_estimated, embedding_estimated)
        mapping_per_page ==
            Max(0, s.pdf_processing_avg_sec_per_page - s.pdf_parsing_avg_sec_per_page
                       - s.embedding_avg_sec_per_page)
        mapping_estimated == pages * mapping_per_page
        save_estimated == 5000
    IN  (group1_estimated + group2_estimated + mapping_estimated + save_estimated) \div 1000

\* variant of EtrStored: no attribute is missing (summary_avg_sec_per_min is
\* read, the combined average is 0) and the per-page residual is not clamped
\* at 0
EtrStored_Unclamped(minutes, pages, s) ==
    (Max(minutes * s.audio_stt_avg_sec_per_min, pages * s.pdf_parsing_avg_sec_per_page)
       + Max(s.summary_avg_sec_per_min, pages * s.embedding_avg_sec_per_page)
       + pages * (0 - s.pdf_parsing_avg_sec_per_page - s.embedding_avg_sec_per_page)
       + 5000) \div 1000

\* lines 526-550 and 558-563: the value the task leaves in estimated_time_sec:
\* the estimate, or 0 when the try body raised
EtrStored(minutes, pages, s) == IF EtrRaises THEN 0 ELSE Estimate(minutes, pages, s)

\* lines 499-511: the duration the task uses: 0 without an audio file or when
\* the duration cannot be read
EtrMinutes(lecture) == IF lecture.audio_file THEN audio_min ELSE 0

\* lines 495-546: the lecture is read, the singleton fetched (line 522 creates
\* a missing row) and the estimate computed; reading an attribute the model
\* does not declare raises AttributeError (line 531)
calculate_etr_task_try ==
    /\ epc = "queued"
    /\ elec' = db
    /\ stats' = get_or_create_singleton(stats)
    /\ eest' = EtrStored(EtrMinutes(db), pdf_pages, stats')
    /\ epc' = IF EtrRaises THEN "except" ELSE "save"
    /\ UNCHANGED <<db, tableVars, old, orchVars, urlVars, reaperVars, sweepVars, audio_min, pdf_pages, speech, embedVars, pdfVars, mapVars>>

\* lines 558-561: the except branch reads the lecture again
calculate_etr_task_except_get ==
    /\ epc = "except"
    /\ elec' = db
    /\ epc' = "save"
    /\ UNCHANGED <<db, tableVars, old, orchVars, eest, urlVars, reaperVars, sweepVars, statsVars, embedVars, pdfVars, mapVars>>

\* lines 549-550, or 562-563 in the except branch: estimated_time_sec is set
\* on the instance and the instance saved (every column written)
calculate_etr_task_save ==
    /\ epc = "save"
    /\ db' = [elec EXCEPT !.estimated_time_sec = eest]
    /\ elec' = NoLecture
    /\ epc' = "done"
    /\ UNCHANGED <<tableVars, old, orchVars, eest, urlVars, reaperVars, sweepVars, statsVars, embedVars, pdfVars, mapVars>>

calculate_etr_task ==
    \/ calculate_etr_task_try
    \/ calculate_etr_task_except_get
    \/ calculate_etr_task_save

\* ---------------------------------------------------------------- start_process_from_url_task
\* lines 577-580: the lecture is read
start_process_from_url_task_get ==
    /\ upc = "queued"
    /\ ulec' = db
    /\ upc' = "download"
    /\ UNCHANGED <<db, tableVars, old, orchVars, etrVars, reaperVars, sweepVars, statsVars, embedVars, pdfVars, mapVars>>

\* lines 602-684: yt-dlp ends with code 0 and the file is found
start_process_from_url_task_downloaded ==
    /\ upc = "download"
    /\ upc' = "save"
    /\ UNCHANGED <<db, tableVars, old, orchVars, etrVars, ulec, reaperVars, sweepVars, statsVars, embedVars, pdfVars, mapVars>>

\* lines 652-673: non-zero return code, timeout, or no file found
start_process_from_url_task_download_raise ==
    /\ upc = "download"
    /\ upc' = "except"
    /\ UNCHANGED <<db, tableVars, old, orchVars, etrVars, ulec, reaperVars, sweepVars, statsVars, embedVars, pdfVars, mapVars>>

\* lines 690-691: audio_file set on the instance, instance saved
start_process_from_url_task_save ==
    /\ upc = "save"
    /\ ulec' = [ulec EXCEPT !.audio_file = TRUE]
    /\ db' = ulec'
    /\ upc' = "enqueue"
    /\ UNCHANGED <<tableVars, old, orchVars, etrVars, reaperVars, sweepVars, statsVars, embedVars, pdfVars, mapVars>>

\* lines 697-700: process_lecture_task.delay, calculate_etr_task.delay
start_process_from_url_task_enqueue ==
    /\ upc = "enqueue"
    /\ opc' = "queued"
    /\ epc' = "queued"
    /\ upc' = "done"
    /\ UNCHANGED <<db, tableVars, old, ost, res, olec, omap, wk, elec, eest, ulec, reaperVars, oerr, sweepVars, statsVars, embedVars, pdfVars, mapVars>>

\* lines 702-708: mark_lecture_as_failed, then the exception is re-raised
start_process_from_url_task_except ==
    /\ upc = "except"
    /\ db' = mark_lecture_as_failed(db)
    /\ upc' = "raised"
    /\ UNCHANGED <<tableVars, old, orchVars, etrVars, ulec, reaperVars, sweepVars, statsVars, embedVars, pdfVars, mapVars>>

start_process_from_url_task ==
    \/ start_process_from_url_task_get
    \/ start_process_from_url_task_downloaded
    \/ start_process_from_url_task_download_raise
    \/ start_process_from_url_task_save
    \/ start_process_from_url_task_enqueue
    \/ start_process_from_url_task_except

\* ---------------------------------------------------------------- check_and_mark_stuck_tasks
\* lines 206-209: filter(status='processing', created_at__lt=cutoff_time)
Stuck(lecture) == lecture.status = "processing" /\ old

\* lines 203-214, 230-233: stuck_lectures.count(); (0, 0) returned when it is 0
check_and_mark_stuck_tasks_count ==
    /\ rpc = "idle"
    /\ sweeps < MaxSweeps
    /\ sweeps' = sweeps + 1
    /\ \E dry_run \in BOOLEAN : rdry' = dry_run
    /\ rcount' = IF Stuck(db) THEN 1 ELSE 0
    /\ rupdated' = 0
    /\ rsnap' = NoLecture
    /\ rpc' = IF Stuck(db) THEN "fetch" ELSE "idle"
    /\ UNCHANGED <<db, tableVars, old, orchVars, etrVars, urlVars, sweepVars, statsVars, embedVars, pdfVars, mapVars>>

\* line 217: the for statement runs the query and fetches the instances
check_and_mark_stuck_tasks_fetch ==
    /\ rpc = "fetch"
    /\ rsnap' = IF Stuck(db) THEN db ELSE NoLecture
    /\ rpc' = IF Stuck(db) THEN "loop" ELSE "idle"
    /\ UNCHANGED <<db, tableVars, old, orchVars, etrVars, urlVars, rdry, rcount, rupdated, sweeps, sweepVars, statsVars, embedVars, pdfVars, mapVars>>

\* lines 221-223: the row the loop body writes for a fetched instance
ReaperWrite(lecture) == [lecture EXCEPT !.status = "failed"]

\* lines 218-224: the loop body for the fetched instance
check_and_mark_stuck_tasks_loop ==
    /\ rpc = "loop"
    /\ IF rdry
       THEN UNCHANGED <<db, rupdated>>
       ELSE /\ db' = ReaperWrite(rsnap)
            /\ rupdated' = rupdated + 1
    /\ rsnap' = NoLecture
    /\ rpc' = "idle"
    /\ UNCHANGED <<tableVars, old, orchVars, etrVars, urlVars, rdry, rcount, sweeps, sweepVars, statsVars, embedVars, pdfVars, mapVars>>

check_and_mark_stuck_tasks ==
    \/ check_and_mark_stuck_tasks_count
    \/ check_and_mark_stuck_tasks_fetch
    \/ check_and_mark_stuck_tasks_loop

Next ==
    \/ Tick
    \/ process_lecture_task
    \/ stt_worker
    \/ pdf_worker
    \/ summary_worker
    \/ embedding_worker
    \/ calculate_etr_task
    \/ start_process_from_url_task
    \/ check_and_mark_stuck_tasks

Spec == Init /\ [][Next]_vars

\* ---------------------------------------------------------------- one sweep over the Lecture table
\* check_and_mark_stuck_tasks run once over a table of NLectures rows, while
\* the tasks of those lectures go on ending them
LectureIds == 1..NLectures

\* a row as process_lecture_task leaves it at line 429
FinishedLecture(lecture) == [CompletedLecture(lecture, "script") EXCEPT !.current_step = 6]

\* the rows a lecture of the table can hold when the sweep is called
TableRows ==
    {NewLecture(TRUE), FinishedLecture(NewLecture(TRUE)),
     mark_lecture_as_failed(NewLecture(TRUE))}

InitSweep ==
    /\ PipelineInit(FALSE)
    /\ FilesInit
    /\ EmbedInit("off")
    /\ PdfInit("off", 1)
    /\ MapInit
    /\ lectures \in [LectureIds -> TableRows]
    /\ aged \in SUBSET LectureIds
    /\ spc = "idle"
    /\ SweepLocalsInit

\* lines 206-209: filter(status='processing', created_at__lt=cutoff_time)
StuckIds == {i \in LectureIds : lectures[i].status = "processing" /\ i \in aged}

\* the instances of a set of ids in the order of the query
RECURSIVE Fetch(_)
Fetch(ids) ==
    IF ids = {} THEN <<>>
    ELSE LET first == CHOOSE i \in ids : \A j \in ids : i <= j
         IN  <<[id |-> first, lecture |-> lectures[first]]>> \o Fetch(ids \ {first})

\* lines 203-214, 230-233: stuck_lectures.count(); (0, 0) returned when it is 0
sweep_count ==
    /\ spc = "idle"
    /\ \E dry_run \in BOOLEAN : sdry' = dry_run
    /\ scount' = Cardinality(StuckIds)
    /\ supdated' = 0
    /\ spc' = IF StuckIds # {} THEN "fetch" ELSE "returned"
    /\ UNCHANGED <<pipelineVars, lectures, aged, sfetched>>

\* line 217: the for statement runs the query and fetches the instances
sweep_fetch ==
    /\ spc = "fetch"
    /\ sfetched' = Fetch(StuckIds)
    /\ spc' = "loop"
    /\ UNCHANGED <<pipelineVars, lectures, aged, sdry, scount, supdated>>

\* variant of Writes: the loop body saves whatever dry_run is
Writes_Always(dry_run) == TRUE

\* line 221: `if not dry_run`
Writes(dry_run) == ~dry_run

\* lines 218-224: the loop body for the next fetched instance
sweep_loop ==
    /\ spc = "loop"
    /\ sfetched # <<>>
    /\ LET next == Head(sfetched)
       IN  IF Writes(sdry)
           THEN /\ lectures' = [lectures EXCEPT ![next.id] = ReaperWrite(next.lecture)]
                /\ supdated' = supdated + 1
           ELSE UNCHANGED <<lectures, supdated>>
    /\ sfetched' = Tail(sfetched)
    /\ UNCHANGED <<pipelineVars, aged, spc, sdry, scount>>

\* lines 226-228: the loop is over, (count, updated_count) returned
sweep_return ==
    /\ spc = "loop"
    /\ sfetched = <<>>
    /\ spc' = "returned"
    /\ UNCHANGED <<pipelineVars, lectures, aged, sdry, scount, supdated, sfetched>>

\* the pipeline of lecture i ends while the sweep runs: process_lecture_task
\* saves 'completed' (lines 408-429) or its failure path marks the row failed
\* (lines 481-485)
lecture_task_ends(i) ==
    /\ spc \in {"fetch", "loop"}
    /\ lectures[i].status = "processing"
    /\ \E row \in {FinishedLecture(lectures[i]), mark_lecture_as_failed(lectures[i])} :
          lectures' = [lectures EXCEPT ![i] = row]
    /\ UNCHANGED <<pipelineVars, aged, spc, sdry, scount, supdated, sfetched>>

NextSweep ==
    \/ sweep_count
    \/ sweep_fetch
    \/ sweep_loop
    \/ sweep_return
    \/ \E i \in LectureIds : lecture_task_ends(i)

SpecSweep == InitSweep /\ [][NextSweep]_vars

\* ---------------------------------------------------------------- statistics and estimate
\* a lecture uploaded by file: its pipeline and its estimator, for every audio
\* duration and page count the files can have and every statistics row
InitStats ==
    /\ PipelineInit(FALSE)
    /\ stats \in {NoStats, CommandStats}
    /\ audio_min \in 0..MaxMinutes
    /\ pdf_pages \in 0..MaxPages
    /\ speech \in BOOLEAN
    /\ EmbedInit("off")
    /\ PdfInit("off", 1)
    /\ MapInit
    /\ lectures = <<>>
    /\ aged = {}
    /\ spc = "off"
    /\ SweepLocalsInit

NextStats ==
    \/ process_lecture_task
    \/ stt_worker
    \/ pdf_worker
    \/ summary_worker
    \/ embedding_worker
    \/ calculate_etr_task

SpecStats == InitStats /\ [][NextStats]_vars

\* ---------------------------------------------------------------- embed_and_store
\* services.py line 403
batch_size == 100

\* the numbers of documents a call is made with: none, one, a full batch, a
\* full batch and one more, MaxDocs
DocCounts == {0, 1, batch_size, batch_size + 1, MaxDocs}

\* services.py lines 369-400: embed_and_store is called for the lecture; its
\* documents are numbered in list order
embed_and_store_call ==
    /\ xpc \in {"idle", "returned", "raised"}
    /\ xrun < MaxRuns
    /\ xrun' = xrun + 1
    /\ \E n \in DocCounts : xdocs' = 1..n
    /\ xbatch' = 0
    /\ xfailed' = {}
    /\ xpc' = "get"
    /\ UNCHANGED <<lectureVars, sweepVars, pdfVars, mapVars, coll>>

\* line 374: get_collection returns the collection, or raises when there is
\* none (swallowed at line 376)
embed_and_store_get ==
    /\ xpc = "get"
    /\ xpc' = IF coll.exists THEN "delete" ELSE "create"
    /\ UNCHANGED <<lectureVars, sweepVars, pdfVars, mapVars, coll, xrun, xdocs, xbatch, xfailed>>

\* line 375: delete_collection removes the collection with its documents
embed_and_store_delete ==
    /\ xpc = "delete"
    /\ coll' = NoCollection
    /\ xpc' = "create"
    /\ UNCHANGED <<lectureVars, sweepVars, pdfVars, mapVars, xrun, xdocs, xbatch, xfailed>>

\* lines 375-377: delete_collection raises; `except Exception: pass`
embed_and_store_delete_raise ==
    /\ xpc = "delete"
    /\ xpc' = "create"
    /\ UNCHANGED <<lectureVars, sweepVars, pdfVars, mapVars, coll, xrun, xdocs, xbatch, xfailed>>

\* line 379: get_or_create_collection: the collection of that name, created
\* empty when there is none; with no document the loop of line 404 is empty
embed_and_store_create ==
    /\ xpc = "create"
    /\ coll' = [coll EXCEPT !.exists = TRUE]
    /\ xpc' = IF xdocs = {} THEN "returned" ELSE "add"
    /\ UNCHANGED <<lectureVars, sweepVars, pdfVars, mapVars, xrun, xdocs, xbatch, xfailed>>

\* line 379: get_or_create_collection raises; embed_and_store raises
embed_and_store_create_raise ==
    /\ xpc = "create"
    /\ xpc' = "raised"
    /\ UNCHANGED <<lectureVars, sweepVars, pdfVars, mapVars, coll, xrun, xdocs, xbatch, xfailed>>

\* lines 405-407: documents[i:i+batch_size]
Batch(i) == {d \in xdocs : i < d /\ d <= i + batch_size}

\* line 404: the loop goes on with the next batch, if there is one
NextBatch(i) == IF i + batch_size >= Cardinality(xdocs) THEN "returned" ELSE "add"

\* lines 421-422: the except clause is inside the loop: the batch is logged
\* and the loop goes on
AfterBatchError(i) == NextBatch(i)

\* lines 410-420: the batch is embedded and added; collection.add leaves a
\* document whose id the collection already holds as it is
embed_and_store_add ==
    /\ xpc = "add"
    /\ coll' = [coll EXCEPT !.docs =
                   [d \in DocIds |-> IF d \in Batch(xbatch) /\ @[d] = 0 THEN xrun ELSE @[d]]]
    /\ xbatch' = xbatch + batch_size
    /\ xpc' = NextBatch(xbatch)
    /\ UNCHANGED <<lectureVars, sweepVars, pdfVars, mapVars, xrun, xdocs, xfailed>>

\* lines 421-422: embed_content or collection.add raises; the batch is logged
\* and skipped
embed_and_store_add_raise ==
    /\ xpc = "add"
    /\ xfailed' = xfailed \cup {xbatch}
    /\ xbatch' = xbatch + batch_size
    /\ xpc' = AfterBatchError(xbatch)
    /\ UNCHANGED <<lectureVars, sweepVars, pdfVars, mapVars, coll, xrun, xdocs>>

embed_and_store ==
    \/ embed_and_store_call
    \/ embed_and_store_get
    \/ embed_and_store_delete
    \/ embed_and_store_delete_raise
    \/ embed_and_store_create
    \/ embed_and_store_create_raise
    \/ embed_and_store_add
    \/ embed_and_store_add_raise

InitEmbed ==
    /\ PipelineInit(FALSE)
    /\ FilesInit
    /\ EmbedInit("idle")
    /\ PdfInit("off", 1)
    /\ MapInit
    /\ lectures = <<>>
    /\ aged = {}
    /\ spc = "off"
    /\ SweepLocalsInit

SpecEmbed == InitEmbed /\ [][embed_and_store]_vars

\* ---------------------------------------------------------------- process_pdf
\* services.py line 261-262: fitz.open, total_pages = len(doc)
process_pdf_open ==
    /\ ppc = "called"
    /\ ppc' = "loop"
    /\ UNCHANGED <<lectureVars, embedVars, sweepVars, mapVars, pbatch, pstart, pfly, ptexts, presult>>

\* lines 261 and 316-318: the PDF cannot be opened; process_pdf returns []
process_pdf_open_raise ==
    /\ ppc = "called"
    /\ ppc' = "returned"
    /\ UNCHANGED <<lectureVars, embedVars, sweepVars, mapVars, pbatch, pstart, pfly, ptexts, presult>>

\* variant of BatchJoined: the executor of a batch is left without waiting
BatchJoined_NoWait(running) == running \subseteq Nat

\* line 276: leaving the with block joins the batch's executor: no page task
\* of the batch is running
BatchJoined(running) == running = {}

\* lines 271-280: the next batch: pages batch_start .. batch_end - 1, one
\* task submitted per page
process_pdf_batch ==
    /\ ppc = "loop"
    /\ BatchJoined(pfly)
    /\ pstart < pdf_pages
    /\ pfly' = pfly \cup
                 {n \in pstart..(pstart + pbatch - 1) : n < pdf_pages}
    /\ pstart' = pstart + pbatch
    /\ UNCHANGED <<lectureVars, embedVars, sweepVars, mapVars, ppc, pbatch, ptexts, presult>>

\* lines 283-290 and process_single_page_with_ollama (187-240): a page task
\* finishes and its entry is appended: (page_num + 1, content), the content
\* being "" for a page without text and images and for a page whose
\* processing raised
process_pdf_page ==
    /\ ppc = "loop"
    /\ \E n \in pfly : \E content \in {"text", ""} :
        /\ ptexts' = Append(ptexts, <<n + 1, content>>)
        /\ pfly' = pfly \ {n}
    /\ UNCHANGED <<lectureVars, embedVars, sweepVars, mapVars, ppc, pbatch, pstart, presult>>

\* the entries of seq whose page number is below / not below that of e
Before(seq, e) == SelectSeq(seq, LAMBDA x : x[1] < e[1])
NotBefore(seq, e) == SelectSeq(seq, LAMBDA x : x[1] >= e[1])

RECURSIVE SortByPage(_)
\* variant of SortByPage: the list is returned in the order of completion
SortByPage_None(seq) == seq

\* line 295: pdf_texts.sort(key=lambda x: x[0])
SortByPage(seq) ==
    IF seq = <<>> THEN <<>>
    ELSE Before(SortByPage(Tail(seq)), Head(seq)) \o <<Head(seq)>>
             \o NotBefore(SortByPage(Tail(seq)), Head(seq))

\* lines 292-314: every batch done: the list is sorted and returned
process_pdf_return ==
    /\ ppc = "loop"
    /\ pfly = {}
    /\ pstart >= pdf_pages
    /\ ptexts' = SortByPage(ptexts)
    /\ ppc' = "returned"
    /\ UNCHANGED <<lectureVars, embedVars, sweepVars, mapVars, pbatch, pstart, pfly, presult>>

\* tasks.py lines 97-119: _pdf_worker raises when `not pdf_texts` and returns
\* the Failure dict, else the Success dict with page_count = len(pdf_texts)
pdf_worker_return ==
    /\ ppc = "returned"
    /\ presult' = WorkerResult("pdf", IF ptexts = <<>> THEN "empty" ELSE "value", Len(ptexts))
    /\ ppc' = "done"
    /\ UNCHANGED <<lectureVars, embedVars, sweepVars, mapVars, pbatch, pstart, pfly, ptexts>>

process_pdf ==
    \/ process_pdf_open
    \/ process_pdf_open_raise
    \/ process_pdf_batch
    \/ process_pdf_page
    \/ process_pdf_return
    \/ pdf_worker_return

\* process_pdf called by _pdf_worker for a PDF of 0..MaxPdfPages pages, with
\* every batch size up to MaxBatchSize
InitPdf ==
    /\ PipelineInit(FALSE)
    /\ stats = NoStats
    /\ audio_min = 1
    /\ speech = TRUE
    /\ pdf_pages \in 0..MaxPdfPages
    /\ EmbedInit("off")
    /\ \E size \in 1..MaxBatchSize : PdfInit("called", size)
    /\ MapInit
    /\ lectures = <<>>
    /\ aged = {}
    /\ spc = "off"
    /\ SweepLocalsInit

SpecPdf == InitPdf /\ [][process_pdf]_vars

\* ---------------------------------------------------------------- the pipeline with process_pdf inside its PDF worker
\* _pdf_worker of the pipeline ends with the dict of the process_pdf call it
\* made
pdf_worker_parsed ==
    /\ wk.pdf.state = "running"
    /\ ppc = "done"
    /\ wk' = [wk EXCEPT !.pdf = [state |-> "done", result |-> presult]]
    /\ UNCHANGED <<db, tableVars, old, opc, ost, res, olec, omap, etrVars, urlVars, reaperVars, oerr, sweepVars, statsVars, embedVars, pdfVars, mapVars>>

\* process_pdf runs inside the running PDF worker
pdf_worker_parsing ==
    /\ wk.pdf.state = "running"
    /\ process_pdf

NextParallel ==
    \/ process_lecture_task
    \/ stt_worker
    \/ pdf_worker_parsing
    \/ pdf_worker_parsed
    \/ summary_worker
    \/ embedding_worker

SpecParallel == InitPdf /\ [][NextParallel]_vars

\* ------------------------------------------- create_semantic_mappings
\* what dict.get returns for a key the item does not have
None == "<None>"

\* the topic titles and the summaries an item of summary_list can carry
Titles == {None, "", "topic"}
Summaries == {None, "", "summary"}
Items == [topic : Titles, summary : Summaries]

RECURSIVE SummaryLists(_)
\* the summary lists of at most n items
SummaryLists(n) ==
    IF n = 0 THEN {<<>>}
    ELSE SummaryLists(n - 1) \cup
         {Append(l, item) : l \in {k \in SummaryLists(n - 1) : Len(k) = n - 1}, item \in Items}

\* services.py lines 386-400: the metadata embed_and_store gives a vector: a
\* PDF page or a chunk of the transcript
Metadatas ==
    {[source |-> "pdf", page |-> n] : n \in 1..MaxPdfPages} \cup
    {[source |-> "script", timestamp |-> "[00:00]"]}

\* variant of Skipped: only the topic title is looked at
Skipped_TitleOnly(item) == item.topic \in {None, ""}

\* lines 447-450: `if not topic or not summary: continue`
Skipped(item) == item.topic \in {None, ""} \/ item.summary \in {None, ""}

\* lines 459-463: collection.query with n_results=1 and where={"source":
\* "pdf"}: the nearest vector among those the filter lets through (which one
\* is nearest is the embedding model's matter), none when there is none
QueryResults == {m \in vectors.metadatas : m.source = "pdf"}

\* lines 434-438: get_collection; `except Exception` returns []
create_semantic_mappings_get ==
    /\ mpc = "called"
    /\ mpc' = IF vectors.exists THEN "loads" ELSE "returned"
    /\ UNCHANGED <<lectureVars, embedVars, pdfVars, sweepVars, summary_json, vectors, mitem,
                   mappings_to_create>>

\* lines 434-438: get_collection raises although the collection exists
create_semantic_mappings_get_raise ==
    /\ mpc = "called"
    /\ vectors.exists
    /\ mpc' = "returned"
    /\ UNCHANGED <<lectureVars, embedVars, pdfVars, sweepVars, summary_json, vectors, mitem,
                   mappings_to_create>>

\* lines 440-444: json.loads; `except Exception` returns []
create_semantic_mappings_loads ==
    /\ mpc = "loads"
    /\ mpc' = IF summary_json.valid THEN "loop" ELSE "returned"
    /\ UNCHANGED <<lectureVars, embedVars, pdfVars, sweepVars, summary_json, vectors, mitem,
                   mappings_to_create>>

\* lines 446-450: the next item has no topic or no summary: continue
create_semantic_mappings_skip ==
    /\ mpc = "loop"
    /\ mitem <= Len(summary_json.summary_list)
    /\ Skipped(summary_json.summary_list[mitem])
    /\ mitem' = mitem + 1
    /\ UNCHANGED <<lectureVars, embedVars, pdfVars, sweepVars, mpc, summary_json, vectors,
                   mappings_to_create>>

\* lines 454-476: the next item is embedded and the collection queried; a
\* result is appended as a mapping dict, an empty result appends nothing. The
\* dict is written with the metadata it was read from (mapped_meta, line 467)
\* and the position of its item, for the properties
create_semantic_mappings_query ==
    /\ mpc = "loop"
    /\ mitem <= Len(summary_json.summary_list)
    /\ ~Skipped(summary_json.summary_list[mitem])
    /\ IF QueryResults = {}
       THEN mappings_to_create' = mappings_to_create
       ELSE \E m \in QueryResults :
                mappings_to_create' =
                    Append(mappings_to_create,
                           [summary_topic |-> summary_json.summary_list[mitem].topic,
                            mapped_pdf_page |-> m.page,
                            mapped_meta |-> m,
                            item |-> mitem])
    /\ mitem' = mitem + 1
    /\ UNCHANGED <<lectureVars, embedVars, pdfVars, sweepVars, mpc, summary_json, vectors>>

\* lines 478-479: embed_content or collection.query raises for the next item:
\* logged, the loop goes on
create_semantic_mappings_raise ==
    /\ mpc = "loop"
    /\ mitem <= Len(summary_json.summary_list)
    /\ ~Skipped(summary_json.summary_list[mitem])
    /\ mitem' = mitem + 1
    /\ UNCHANGED <<lectureVars, embedVars, pdfVars, sweepVars, mpc, summary_json, vectors,
                   mappings_to_create>>

\* lines 481-482: the loop is over; the list is returned
create_semantic_mappings_return ==
    /\ mpc = "loop"
    /\ mitem > Len(summary_json.summary_list)
    /\ mpc' = "returned"
    /\ UNCHANGED <<lectureVars, embedVars, pdfVars, sweepVars, summary_json, vectors, mitem,
                   mappings_to_create>>

create_semantic_mappings ==
    \/ create_semantic_mappings_get
    \/ create_semantic_mappings_get_raise
    \/ create_semantic_mappings_loads
    \/ create_semantic_mappings_skip
    \/ create_semantic_mappings_query
    \/ create_semantic_mappings_raise
    \/ create_semantic_mappings_return

\* create_semantic_mappings is called with a summary (parsing or not, of at
\* most MaxTopics items) for a lecture whose collection exists or not
InitMap ==
    /\ PipelineInit(FALSE)
    /\ FilesInit
    /\ EmbedInit("off")
    /\ PdfInit("off", 1)
    /\ lectures = <<>>
    /\ aged = {}
    /\ spc = "off"
    /\ SweepLocalsInit
    /\ mpc = "called"
    /\ \E valid \in BOOLEAN, list \in SummaryLists(MaxTopics) :
           summary_json = [valid |-> valid, summary_list |-> IF valid THEN list ELSE <<>>]
    /\ \E exists \in BOOLEAN, ms \in SUBSET Metadatas :
           vectors = [exists |-> exists, metadatas |-> IF exists THEN ms ELSE {}]
    /\ mitem = 1
    /\ mappings_to_create = <<>>

SpecMap == InitMap /\ [][create_semantic_mappings]_vars

\* ================================================================ properties

\* a stage worker has returned its dict
Returned(w) == wk[w].state \in {"done", "collected"}

\* create_semantic_mappings is running or has returned
MapStarted == opc = "map" \/ omap >= 0

\* the persist step (lines 406-430) has started
PersistStarted ==
    opc \in {"get", "save1", "chunks", "save2", "stats", "done"} \/ olec # NoLecture

\* C1: in every reachable state, under every interleaving of process_lecture_task
\* with calculate_etr_task and check_and_mark_stuck_tasks, a persisted status
\* 'completed' implies full_script and summary_json are not null and
\* current_step is 6.  (calculate_etr_task saves every column of an instance it
\* read earlier; landing between lines 408 and 411 it puts back the older
\* current_step, which line 415 then saves together with 'completed'.)
C1_CompletedHasOutputs ==
    db.status = "completed" =>
        /\ db.full_script # "null"
        /\ db.summary_json # "null"
        /\ db.current_step = 6

\* C2: a lecture whose persisted status is 'completed' has at least one
\* PdfChunk row, in every observable state (the persist step included).
C2_CompletedHasChunk == db.status = "completed" => chunks >= 1

\* C3: when process_lecture_task has raised (its failure path has run), the
\* persisted status is not 'completed'.
C3_RaisedNeverCompleted == opc = "raised" => db.status # "completed"

\* C4: the loop body of the sweep never writes 'failed' over a row whose
\* persisted status is 'completed'.
C4_SweepSparesCompleted ==
    [][check_and_mark_stuck_tasks_loop =>
          ~(db.status = "completed" /\ db'.status = "failed")]_vars

\* C5: 'failed' is terminal: no step of any task changes a persisted status
\* 'failed' to another value.
C5_FailedIsTerminal == [][db.status = "failed" => db'.status = "failed"]_vars

\* C6: once the persisted status is 'failed', no step adds or changes an entry
\* of the persisted step_times.
C6_FailedFreezesStepTimes ==
    [][db.status = "failed" => db'.step_times = db.step_times]_vars

\* C7: no Tier 2 worker is started before both Tier 1 workers have returned;
\* create_semantic_mappings is not started before both Tier 2 workers have
\* returned Success; the persist step is not started before it has returned.
C7_TierOrdering ==
    /\ (\E w \in Tier2 : wk[w].state # "idle") => \A v \in Tier1 : Returned(v)
    /\ MapStarted => \A w \in Tier2 : Returned(w) /\ wk[w].result.success
    /\ PersistStarted => omap >= 0

\* C7 witness: the persist step is under way, after both tiers and Map
C7_Witness == opc = "save2" /\ chunks > 0 /\ \A w \in Workers : wk[w].state = "collected"

\* C8: after a Tier 1 worker has returned Failure, current_step never becomes 3
\* (or more) and no Tier 2 worker is started; after a Tier 2 worker has
\* returned Failure, current_step never becomes 5 or 6 and neither Map nor the
\* persist step runs.
C8_AdvanceOnlyWhenValidated ==
    /\ (\E w \in Tier1 : Returned(w) /\ ~wk[w].result.success) =>
          /\ db.current_step \notin {3, 5, 6}
          /\ \A v \in Tier2 : wk[v].state = "idle"
    /\ (\E w \in Tier2 : Returned(w) /\ ~wk[w].result.success) =>
          /\ db.current_step \notin {5, 6}
          /\ ~MapStarted
          /\ ~PersistStarted

\* C8 witness: one Tier 1 worker failed, its sibling succeeded, and the task
\* has run to its end
C8_Witness ==
    /\ opc = "raised"
    /\ wk["stt"].state = "collected" /\ ~wk["stt"].result.success
    /\ wk["pdf"].state = "collected" /\ wk["pdf"].result.success

\* C9: while a worker of a tier is running the task is inside that tier's with
\* block; in particular the failure path (mark_lecture_as_failed) is not
\* reached while any worker is still running.
C9_FailureWaitsForSibling ==
    /\ opc \in {"except", "raised"} => \A w \in Workers : wk[w].state # "running"
    /\ (\E w \in Tier1 : wk[w].state = "running") => opc \in {"tier1", "tier1_raise"}
    /\ (\E w \in Tier2 : wk[w].state = "running") => opc \in {"tier2", "tier2_raise"}

\* C9 witness: the Tier 2 loop has raised on a Failure while the sibling is
\* still running
C9_Witness ==
    /\ opc = "tier2_raise"
    /\ wk["summary"].state = "collected" /\ ~wk["summary"].result.success
    /\ wk["embedding"].state = "running"

\* C10: every result the loop has taken, Success or Failure, is held in the
\* result variable of the worker that produced it, and no result variable
\* holds another worker's result.
C10_ResultsKeyedByWorker ==
    \A w \in Workers :
        /\ wk[w].state = "collected" => res[w] = wk[w].result
        /\ res[w] # NoResult => res[w].worker = w

\* a stage worker has returned Failure
Failed(w) == Returned(w) /\ ~wk[w].result.success

\* C11: when the loop has taken a worker's Failure and process_lecture_task
\* raises for it (not for a database error of its own), the exception it raises
\* (the message passed to mark_lecture_as_failed) is the reason reported by a
\* failing worker of that tier.
C11_ExceptionCitesWorkerReason ==
    (/\ opc \in {"except", "raised"}
     /\ oerr.kind # "db_error"
     /\ \E w \in Workers : Failed(w) /\ wk[w].state = "collected") =>
        \E w \in Workers : Failed(w) /\ oerr = wk[w].result.error

\* C12: when the summary worker has returned Failure and the embedding worker
\* Success, in either completion order, and process_lecture_task has ended,
\* the persisted status is 'failed' and the persisted step_times holds the
\* embedding worker's elapsed time under key '4'.
C12_FailedTierKeepsSiblingTime ==
    (/\ opc = "raised"
     /\ Failed("summary")
     /\ Returned("embedding") /\ wk["embedding"].result.success) =>
        /\ db.status = "failed"
        /\ "4" \in DOMAIN db.step_times
        /\ db.step_times["4"] = ElapsedSec.embedding

\* C13: when the PDF worker has returned Failure (process_pdf gave no page),
\* process_lecture_task ends with persisted status 'failed', current_step 1
\* and no step_times key other than '1', whatever the STT worker returned and
\* in whatever order the two finished.
C13_PdfFailureEndsAtStep1 ==
    [][(opc = "except" /\ opc' = "raised" /\ Failed("pdf")) =>
          /\ db'.status = "failed"
          /\ db'.current_step = 1
          /\ DOMAIN db'.step_times \subseteq {"1"}]_vars

\* C14: when the loop takes a worker's Success, that worker's elapsed time is
\* in the persisted step_times at the end of that very step, whether or not
\* the sibling has finished; so the row can show one entry of a tier without
\* the other.
C14_ElapsedWrittenOnArrival ==
    [][\A w \in Workers :
          (/\ wk[w].state = "done" /\ wk'[w].state = "collected"
           /\ wk[w].result.success
           /\ opc' = opc) =>
              /\ StepKey(w) \in DOMAIN db'.step_times
              /\ db'.step_times[StepKey(w)] = wk[w].result.elapsed_sec]_vars

\* C14 witness: the embedding worker's entry is persisted while the summary
\* worker is still running and has no entry
C14_Witness ==
    /\ wk["embedding"].state = "collected" /\ wk["embedding"].result.success
    /\ wk["summary"].state = "running"
    /\ "4" \in DOMAIN db.step_times
    /\ "3" \notin DOMAIN db.step_times

\* C15: every exception process_lecture_task raises goes through its except
\* branch; that branch ends the task by raising the same exception, and the
\* one write it makes sets status 'failed' when the row's status is
\* 'processing' and changes nothing when it is 'completed' or 'failed'.
C15_FailurePathMarksOnlyProcessing ==
    [][/\ oerr' # NoError => opc' \in {"tier1_raise", "tier2_raise", "except", "raised"}
       /\ (opc' = "raised" /\ opc # "raised") => opc = "except"
       /\ (opc = "except" /\ opc' # opc) =>
              /\ opc' = "raised"
              /\ oerr' = oerr
              /\ db' = [db EXCEPT !.status =
                            IF db.status = "processing" THEN "failed" ELSE db.status]]_vars

\* C15 witness: the task has raised a database error after saving 'completed',
\* and the row is still 'completed'
C15_Witness == opc = "raised" /\ oerr.kind = "db_error" /\ db.status = "completed"

\* C16: when process_lecture_task starts on a lecture without audio it raises
\* at once; from then on no stage worker is ever started, the persisted
\* current_step stays 0 and step_times stays empty, the failure path leaves
\* the status 'failed', and the task is not run again.
C16_NoAudioFailsAtOnce ==
    [][/\ (opc = "queued" /\ opc' # opc /\ ~db.audio_file) =>
              opc' = "except" /\ oerr'.kind = "no_audio"
       /\ oerr'.kind = "no_audio" =>
              /\ opc' \in {"except", "raised"}
              /\ \A w \in Workers : wk'[w].state = "idle"
              /\ db'.current_step = 0
              /\ db'.step_times = EmptyDict
              /\ (opc = "except" /\ opc' = "raised") => db'.status = "failed"]_vars

\* C16 witness: the task found no audio and has run its failure path
C16_Witness ==
    /\ opc = "raised" /\ oerr.kind = "no_audio"
    /\ db.status = "failed" /\ db.current_step = 0

\* every task enqueued for the lecture has run to its end (returned or raised)
\* and no sweep is under way: nothing is left that would write the row
Quiescent ==
    /\ upc \in {"idle", "done", "raised"}
    /\ upc # "raised" => opc \in {"done", "raised"} /\ epc = "done"
    /\ rpc = "idle"

\* C17: a lecture does not stay 'processing' for ever: once every task enqueued
\* for it has ended with its failure path run where it raised, the persisted
\* status is 'completed' or 'failed'.
C17_EndsInTerminalStatus == Quiescent => db.status \in {"completed", "failed"}

\* a step of the table sweep (the steps of other tasks leave its position and
\* its fetched instances alone)
SweepStep == <<spc, sfetched>>' # <<spc, sfetched>>

\* C18: a sweep with dry_run=False changes the status of a lecture only when
\* that lecture is 'processing' and older than the threshold, and then to
\* 'failed'; it changes no other lecture; and updated_count grows by one
\* exactly when a status was flipped.
C18_SweepFlipsExactlyStuck ==
    [][(SweepStep /\ ~sdry') =>
          \A i \in LectureIds :
              /\ i \notin StuckIds => lectures'[i].status = lectures[i].status
              /\ lectures'[i].status \in {lectures[i].status, "failed"}
              /\ supdated' - supdated =
                     Cardinality({j \in LectureIds : lectures'[j].status # lectures[j].status})
      ]_vars

\* C19: a sweep with dry_run=True reports as count the number of lectures
\* that are 'processing' and older than the threshold when it is called,
\* reports updated_count 0, and none of its steps changes any field of any
\* lecture, whatever the table holds.
C19_DryRunChangesNothing ==
    [][(SweepStep /\ sdry') =>
          /\ lectures' = lectures
          /\ supdated' = 0
          /\ scount' = IF spc = "idle" THEN Cardinality(StuckIds) ELSE scount]_vars

\* C19 witness: a dry run over a table in which every lecture is stuck has
\* returned (NLectures, 0) and every lecture is still 'processing'
C19_Witness ==
    /\ spc = "returned" /\ sdry
    /\ scount = NLectures /\ supdated = 0
    /\ \A i \in LectureIds : lectures[i].status = "processing"

\* C20: an exception raised in the statistics block is swallowed: the step
\* that runs the block ends the task normally, with no exception, no call of
\* the failure path and the lecture row (its status 'completed') untouched;
\* a task that has returned never raised.
C20_StatsFailureSwallowed ==
    [][/\ (opc = "stats" /\ opc' # opc) =>
              /\ opc' = "done"
              /\ oerr' = NoError
              /\ db' = db
       /\ opc' = "done" => opc \in {"stats", "done"} /\ oerr' = NoError]_vars

\* C20 witness: the block raised, the task has returned and the lecture is
\* 'completed'
C20_Witness == StatsRaises /\ opc = "done" /\ db.status = "completed"

\* the statistics block of process_lecture_task ends
StatsStep == opc = "stats" /\ opc' = "done"

\* C21: when the pipeline has completed a lecture whose audio lasts more than
\* 0 minutes and whose PDF has more than 0 pages, each persisted average (STT
\* per minute, parsing per page, embedding per page) is 0.5 * old + 0.5 *
\* observed once the statistics block has ended.
C21_AveragesSmoothed ==
    [][(StatsStep /\ audio_min > 0 /\ res.pdf.page_count > 0) =>
         LET avg == get_or_create_singleton(stats) IN
           /\ stats'.audio_stt_avg_sec_per_min =
                Smooth(avg.audio_stt_avg_sec_per_min, Observed(res.stt.elapsed_sec, audio_min))
           /\ stats'.pdf_parsing_avg_sec_per_page =
                Smooth(avg.pdf_parsing_avg_sec_per_page,
                       Observed(res.pdf.elapsed_sec, res.pdf.page_count))
           /\ stats'.embedding_avg_sec_per_page =
                Smooth(avg.embedding_avg_sec_per_page,
                       Observed(res.embedding.elapsed_sec, res.pdf.page_count))]_vars

\* the averages of a statistics row; a row not created yet stands for the
\* defaults its first access creates
Averages(row) == [f \in ProcessingStatsFields |-> row[f]]

\* C22: an average of ProcessingStats changes only in the statistics block of
\* process_lecture_task, which runs after the task has saved the lecture as
\* 'completed'; no step of an execution that ends 'failed' and no step of
\* calculate_etr_task changes an average.
C22_StatsOnlyAfterCompleted ==
    [][Averages(stats') # Averages(stats) => (StatsStep /\ olec.status = "completed")]_vars

C22_Witness ==
    /\ opc = "raised"
    /\ db.status = "failed"
    /\ epc = "done"
    /\ stats = CommandStats

\* calculate_etr_task writes the lecture with its estimate
EtrSaveStep == epc = "save" /\ epc' = "done"

\* lines 526-546 with the least the two averages the model does not declare
\* can contribute: max(summary, pages * embedding) >= pages * embedding and
\* pages * max(0, ...) >= 0
EstimateFloor(minutes, pages, s) ==
    (Max(minutes * s.audio_stt_avg_sec_per_min, pages * s.pdf_parsing_avg_sec_per_page)
       + pages * s.embedding_avg_sec_per_page + 5000) \div 1000

\* C23: calculate_etr_task stores estimated_time_sec = int(max(audio minutes *
\* STT average, pages * parsing average) + max(summary seconds, pages *
\* embedding average) + pages * max(0, combined - parsing - embedding) + 5);
\* for every audio duration, page count and averages the stored value is
\* therefore at least int(max(...) + pages * embedding average + 5).
C23_EstimateStored ==
    [][EtrSaveStep =>
         db'.estimated_time_sec >= EstimateFloor(EtrMinutes(db), pdf_pages, stats)]_vars

C25_EstimatorDegrades ==
    [][(EtrSaveStep /\ (EtrMinutes(db) = 0 \/ pdf_pages = 0)) =>
         /\ db'.estimated_time_sec >= EstimateFloor(EtrMinutes(db), pdf_pages, stats)
         /\ db'.status = "failed" => db.status = "failed"]_vars

\* C26: in every interleaving of calculate_etr_task with the pipeline, the URL
\* task and the stuck-task check, the step with which calculate_etr_task
\* writes the lecture changes no persisted field other than
\* estimated_time_sec: status, current_step, step_times, full_script and
\* summary_json keep the values they had just before it.
C26_EstimatorWritesOnlyEstimate ==
    [][EtrSaveStep =>
         \A f \in {"status", "current_step", "step_times", "full_script", "summary_json"} :
             db'[f] = db[f]]_vars

\* C27: whenever a call of embed_and_store for the lecture has returned, after
\* any number of calls, the lecture's collection exists and every document in
\* it was added by that last call (the collection having been deleted if it
\* existed and created again before the documents were added).
C27_EmbedIdempotent ==
    xpc = "returned" =>
        /\ coll.exists
        /\ \A d \in DocIds : coll.docs[d] \in {0, xrun}

\* services.py line 404: range(0, len(documents), batch_size)
BatchStarts == {i \in 0..MaxDocs : i % batch_size = 0 /\ i < Cardinality(xdocs)}

\* tasks.py lines 156-174: what _embedding_worker returns for the way its call
\* of embed_and_store ended
EmbedWorkerResult ==
    WorkerResult("embedding", IF xpc = "raised" THEN "raise" ELSE "value", 1)

\* C36: the documents of a call are embedded in consecutive batches of at most
\* 100; whenever a call of embed_and_store has returned, every batch was
\* attempted, the Embed worker returns Success whether or not batches failed,
\* and the collection holds exactly the documents of the batches that did not
\* fail.
C36_FailedBatchSkipped ==
    /\ \A i \in BatchStarts : Cardinality(Batch(i)) \in 1..100
    /\ xdocs = UNION {Batch(i) : i \in BatchStarts}
    /\ xpc = "returned" =>
        /\ xbatch >= Cardinality(xdocs)
        /\ xfailed \subseteq BatchStarts
        /\ EmbedWorkerResult.success
        /\ {d \in DocIds : coll.docs[d] # 0} = UNION {Batch(i) : i \in BatchStarts \ xfailed}

\* a step of the loop of create_semantic_mappings over summary_list
MapLoopStep == mitem' # mitem

\* C37: create_semantic_mappings never raises and returns at most one mapping
\* per item of summary_list, in the order of the items; an item with a
\* missing or empty topic or summary, and an item whose embedding or query
\* raises, adds nothing and the loop goes on with the next item; every mapping
\* carries the page of a vector of the lecture's collection whose source is
\* "pdf".
C37_MappingsPerTopic ==
    [][/\ \A k \in 1..Len(mappings_to_create') :
            /\ mappings_to_create'[k].item \in 1..(mitem' - 1)
            /\ k > 1 => mappings_to_create'[k - 1].item < mappings_to_create'[k].item
            /\ ~(summary_json.summary_list[mappings_to_create'[k].item].topic \in {None, ""})
            /\ ~(summary_json.summary_list[mappings_to_create'[k].item].summary \in {None, ""})
            /\ mappings_to_create'[k].summary_topic =
                   summary_json.summary_list[mappings_to_create'[k].item].topic
            /\ mappings_to_create'[k].mapped_meta \in vectors.metadatas
            /\ mappings_to_create'[k].mapped_meta.source = "pdf"
            /\ mappings_to_create'[k].mapped_pdf_page = mappings_to_create'[k].mapped_meta.page
       /\ MapLoopStep =>
            /\ mitem' = mitem + 1
            /\ mpc' = "loop"
            /\ \/ mappings_to_create' = mappings_to_create
               \/ /\ Len(mappings_to_create') = Len(mappings_to_create) + 1
                  /\ SubSeq(mappings_to_create', 1, Len(mappings_to_create)) = mappings_to_create
                  /\ mappings_to_create'[Len(mappings_to_create')].item = mitem
       /\ mpc' = "returned" =>
            \/ mitem' = Len(summary_json.summary_list) + 1
            \/ mappings_to_create' = <<>>]_vars

\* a returned call whose first topic was skipped or failed and whose second
\* topic was mapped, the collection holding a transcript vector as well
C37_Witness ==
    /\ mpc = "returned"
    /\ Len(summary_json.summary_list) = 2
    /\ Len(mappings_to_create) = 1
    /\ mappings_to_create[1].item = 2
    /\ \E m \in vectors.metadatas : m.source = "script"

\* tasks.py lines 418-424: process_lecture_task has created every row of its
\* persist step
Persisted == opc \in {"save2", "stats", "done"}

\* C38: PdfChunk and Mapping rows are created only in the persist step: while
\* the lecture's persisted current_step is below 6 it has no PdfChunk and no
\* Mapping row, a lecture whose task raised before step 6 has none, and once
\* the persist step has created its rows the lecture has one PdfChunk per
\* parsed page and one Mapping per entry the Map stage returned.
C38_RowsOnlyInPersist ==
    /\ db.current_step < 6 => (chunks = 0 /\ mappings = 0)
    /\ (opc \in {"except", "raised"} /\ "5" \notin DOMAIN ost) => (chunks = 0 /\ mappings = 0)
    /\ Persisted => (chunks = res["pdf"].page_count /\ mappings = omap)

\* C39: the loop body of a sweep with dry_run=False changes no column of the
\* lecture's row but status: current_step, step_times, full_script,
\* summary_json and estimated_time_sec are after the step what they were
\* before it, whatever the other tasks have written in between.
C39_SweepWritesOnlyStatus ==
    [][(check_and_mark_stuck_tasks_loop /\ ~rdry) =>
          /\ db'.current_step = db.current_step
          /\ db'.step_times = db.step_times
          /\ db'.full_script = db.full_script
          /\ db'.summary_json = db.summary_json
          /\ db'.estimated_time_sec = db.estimated_time_sec]_vars

\* a step of process_lecture_task
PipelineStep == orchVars' # orchVars

\* both tasks of the lecture have ended
BothFinished == epc = "done" /\ opc \in {"done", "raised"}

\* C40: once calculate_etr_task has stored a non-zero estimated_time_sec, no
\* step of process_lecture_task changes the persisted value; and when both
\* tasks have ended the persisted estimated_time_sec is the estimate of the
\* task's formula, which is at least its save term of 5 seconds whatever the
\* durations and the averages are.
C40_EstimateSurvivesPersist ==
    [][/\ (PipelineStep /\ epc = "done" /\ db.estimated_time_sec # 0) =>
              db'.estimated_time_sec = db.estimated_time_sec
       /\ BothFinished' => db'.estimated_time_sec >= EstimateFloor(0, 0, stats')]_vars

\* lines 75-89, 104-119, 134-148, 161-174: r is one of the two dicts worker w
\* returns: Success with its payload keys and a positive elapsed_sec, or
\* Failure with the reason
Structured(w, r) ==
    \/ /\ r.success
       /\ r.keys = SuccessKeys(w)
       /\ "elapsed_sec" \in r.keys
       /\ r.elapsed_sec > 0
    \/ /\ ~r.success
       /\ r.keys = {"success", "error"}
       /\ r.error = WorkerError(w)

\* C28: for every outcome of its external call (a value, an empty value,
\* None, an exception) each of the four stage workers returns a dict, Success
\* with payload and elapsed seconds or Failure with a reason, and no exception
\* leaves the worker; every result a worker has returned in a run is such a
\* dict.
C28_WorkersReturnStructured ==
    /\ \A w \in Workers : \A outcome \in Outcomes(w) : \A n \in 1..MaxPages :
           Structured(w, WorkerResult(w, outcome, n))
    /\ \A w \in Workers : Returned(w) => Structured(w, wk[w].result)

C28_Witness ==
    /\ \A w \in Workers : Returned(w)
    /\ wk.stt.result.success
    /\ wk.pdf.result.success
    /\ ~wk.summary.result.success
    /\ wk.embedding.result.success

\* C29: the STT worker returns Failure whenever the transcription model gives
\* an empty or null transcript, and so no lecture is persisted 'completed'
\* with an empty transcript.
C29_EmptyTranscriptFails ==
    /\ (Returned("stt") /\ wk.stt.result.success) => wk.stt.result.text \notin {"", "null"}
    /\ db.status = "completed" => db.full_script # ""

\* C30: nothing is retried: a stage worker (transcribe, parse, summarize,
\* embed, the last creating and filling the lecture's collection) is started
\* only if it has not been started before; create_semantic_mappings is
\* entered only if it has not been entered before and nothing has failed; the
\* task is put on the queue only when it has never run, so a failed task is
\* not submitted again.
C30_NothingRetried ==
    [][/\ \A w \in Workers :
            (wk'[w].state = "running" /\ wk[w].state # "running") => wk[w].state = "idle"
       /\ (opc' = "map" /\ opc # "map") => (~MapStarted /\ oerr = NoError)
       /\ (opc' = "queued" /\ opc # "queued") => opc = "idle"]_vars

C30_Witness ==
    /\ opc = "raised"
    /\ oerr.kind = "map_error"
    /\ \A w \in Workers : wk[w].state = "collected"
    /\ db.status = "failed"

\* C31: for a lecture submitted by URL, process_lecture_task is on the queue
\* or running only when start_process_from_url_task has ended normally, having
\* saved the audio file on the lecture; when the download fails or times out
\* the task ends with the lecture 'failed' and process_lecture_task is never
\* put on the queue.
C31_ProcessAfterFetch ==
    /\ (upc # "idle" /\ opc # "idle") => (upc = "done" /\ ulec.audio_file)
    /\ upc = "raised" => (opc = "idle" /\ db.status = "failed")

C31_Witness ==
    /\ upc = "done"
    /\ opc = "queued"
    /\ db.audio_file

\* C32: the persisted current_step is always one of 0, 1, 3, 5, 6 and no step
\* of any task (pipeline, estimator, URL task, stuck-task check, failure
\* marking) changes it to a smaller value.
C32_CurrentStepForward ==
    [][/\ db'.current_step \in {0, 1, 3, 5, 6}
       /\ db'.current_step >= db.current_step]_vars

\* the keys of the persisted step_times
Keys == DOMAIN db.step_times

\* C33: in every reachable state the persisted step_times has keys only among
\* '1'..'6'; '3' or '4' is there only if '1' and '2' are; '5' only if '3' and
\* '4' are; '6' only if '5' is.  Within a tier either key can be there
\* without the other.
C33_StepTimesByStage ==
    /\ Keys \subseteq {"1", "2", "3", "4", "5", "6"}
    /\ (Keys \cap {"3", "4"} # {}) => {"1", "2"} \subseteq Keys
    /\ "5" \in Keys => {"3", "4"} \subseteq Keys
    /\ "6" \in Keys => "5" \in Keys

C33_Witness ==
    /\ Keys = {"1", "2", "4"}
    /\ opc = "tier2"

\* process_pdf has returned from its loop (the PDF could be opened)
PdfParsed == ppc \in {"returned", "done"} /\ pstart >= pdf_pages

\* C34: for a PDF of n pages that can be opened process_pdf returns exactly n
\* entries, entry i having page number i (ascending, no duplicates), in
\* whatever order the page tasks of a batch finished and whatever their
\* content (empty for a failed or blank page); _pdf_worker returns Failure
\* exactly when the list has no entry.
C34_PagesInOrder ==
    /\ PdfParsed =>
         /\ Len(ptexts) = pdf_pages
         /\ \A i \in 1..Len(ptexts) : ptexts[i][1] = i
    /\ ppc = "done" => (presult.success <=> Len(ptexts) > 0)
    /\ ppc = "done" /\ presult.success => presult.page_count = Len(ptexts)

C34_Witness ==
    /\ ppc = "done"
    /\ pdf_pages = MaxPdfPages
    /\ pbatch = MaxBatchSize
    /\ presult.success
    /\ ptexts[1][2] = ""
    /\ ptexts[2][2] = "text"

\* the stage workers that are executing
Running == {w \in Workers : wk[w].state = "running"}

\* C35: at any moment at most two stage workers of the lecture are executing,
\* and only workers of one tier; inside process_pdf at most batch_size page
\* tasks are in flight, and page tasks are started only when no page task of
\* an earlier batch is still running.
C35_BoundedParallelism ==
    [][/\ Cardinality(Running') <= 2
       /\ Running' \subseteq Tier1 \/ Running' \subseteq Tier2
       /\ Cardinality(pfly') <= pbatch
       /\ ~(pfly' \subseteq pfly) => pfly = {}]_vars

C35_Witness ==
    /\ Running = Tier1
    /\ Cardinality(pfly) = MaxBatchSize
    /\ pstart < pdf_pages

====
